---- MODULE Spec2Model ----
(***************************************************************************)
(* GrowEasy supermarket dashboard (src/app.py): one run of main() per user *)
(* interaction.  A run reads the dataset, builds the sidebar widgets,      *)
(* filters the dataset, and then computes and presents the aggregations    *)
(* one after the other (hero metrics, insights, donut charts, ...).        *)
(* load_data(), the schema normaliser of the file, is modelled as well:    *)
(* main() never calls it, so it has a specification of its own.            *)
(*                                                                         *)
(* Money is fixed point: an amount is an integer number of 1/Scale rupees, *)
(* so that amounts that are not whole rupees exist and sums are exact.     *)
(* A DataFrame is a sequence of rows; every row carries its pandas index   *)
(* label in the field "index".  A Series is a sequence of                  *)
(* [label, value] entries.                                                 *)
(***************************************************************************)
EXTENDS Integers, Sequences, FiniteSets, TLC

VARIABLES df, pc, selected_cities, selected_segments, sales_range,
          filtered_df, emitted, outcome, hero, insights, charts,
          source_file, uploaded_file, loaded, cache, runs, sample_start

vars == <<df, pc, selected_cities, selected_segments, sales_range,
          filtered_df, emitted, outcome, hero, insights, charts,
          source_file, uploaded_file, loaded, cache, runs, sample_start>>

\* what a run of main() and a call of load_data() are given
inputVars == <<df, source_file, uploaded_file, sample_start>>

-----------------------------------------------------------------------------
(* Bounds of the model *)

\* an amount is a whole number of 1/Scale rupees
Scale == 2
\* longest dataset of the small families
MaxRows == 2
\* number of distinct cities of the wide family (more than the top-N cutoff)
MaxCities == 11
\* slider stops above the minimum that a user is taken to drag to
MaxSliderSteps == 2
\* number of parameter values of the wide family's amount pattern
MaxPattern == 2
\* most purchases of the one customer of the repeat family
MaxVisits == 12
\* most interactions (runs of main()) of a session
MaxRuns == 2
\* rows from which st.cache_data hashes a sample of a DataFrame instead of
\* the whole of it, and the rows of the sample (100000 and 10000 in
\* Streamlit, scaled to the datasets of the model)
PandasRowsLarge == 2
PandasSampleSize == 1

Rs(x) == x * Scale

-----------------------------------------------------------------------------
(* Input datasets *)

\* every label of the model in Python's string order (groupby sorts its keys)
LabelOrder ==
  <<"A", "B", "Batticaloa", "Colombo", "Galle", "Gampaha", "Jaffna",
    "Kalmunai", "Kandy", "Katunayake", "Matara", "Moratuwa", "Negombo",
    "Others", "Trincomalee">>

Rank(s) == CHOOSE i \in 1..Len(LabelOrder) : LabelOrder[i] = s

\* the cities of the wide family, in the order in which rows mention them
WideCities ==
  <<"Kandy", "Others", "Colombo", "Galle", "Jaffna", "Negombo", "Matara",
    "Gampaha", "Moratuwa", "Batticaloa", "Trincomalee", "Kalmunai",
    "Katunayake">>

Row(c, city, seg, lux, fresh, dry, total) ==
  [Customer_ID |-> c, outlet_city |-> city, cluster_catgeory |-> seg,
   luxury_sales |-> lux, fresh_sales |-> fresh, dry_sales |-> dry,
   Total_sales |-> total]

\* amounts of one row: customer, luxury, fresh, dry, total
FilterProfiles ==
  { <<"C1", Rs(500), Rs(500), Rs(0), Rs(1000)>>,
    <<"C2", Rs(1000), Rs(1000), Rs(0) + 1, Rs(2000) + 1>>,
    <<"C1", Rs(1000), Rs(1500), Rs(500), Rs(3000)>> }

FilterRows ==
  { Row(p[1], city, seg, p[2], p[3], p[4], p[5]) :
      city \in {"Colombo", "Kandy"}, seg \in {"A", "B"}, p \in FilterProfiles }

\* rows around the edges of the spending tiers, and below the first edge
TierTotals ==
  { Rs(0 - 1), Rs(0), Rs(2000), Rs(5000), Rs(10000), Rs(20000), Rs(20000) + 1 }

TierRows ==
  { Row("C1", "Colombo", "A", 0, t, 0, t) : t \in TierTotals }

SeqsUpTo(S, n) == UNION { [1..k -> S] : k \in 0..n }

\* the wide family: n rows over MaxCities cities, row i with the total
\* 1000 * ((a * i + b) % 5) rupees: zero, tied and distinct sums
WideRow(i, a, b) ==
  LET t == Rs(1000) * ((a * i + b) % 5)
  IN  Row(IF i % 3 = 0 THEN "C1" ELSE "C2",
          WideCities[((i - 1) % MaxCities) + 1],
          IF i % 2 = 0 THEN "A" ELSE "B",
          t, 0, 0, t)

WideDatasets ==
  { [i \in 1..n |-> WideRow(i, a, b)] :
      n \in (MaxCities - 1)..(MaxCities + 1), a \in 0..MaxPattern, b \in 0..MaxPattern }

\* a row whose Total_sales is the sum of its categories, and one whose
\* Total_sales is not (the file is not under the program's control)
UnbalancedRows ==
  { Row("C1", "Colombo", "A", Rs(1000), Rs(1000), Rs(1000), Rs(3000)),
    Row("C2", "Colombo", "B", Rs(1000), Rs(1000), Rs(1000), Rs(2500)) }

\* the repeat family: one customer with n purchases in two cities, purchase
\* i of 1000 * i rupees, every fourth one in segment B
RepeatRow(i) ==
  Row("C1", WideCities[(i % 2) + 3], IF i % 4 = 0 THEN "B" ELSE "A",
      Rs(1000) * i, 0, 0, Rs(1000) * i)

RepeatDatasets ==
  { [i \in 1..n |-> RepeatRow(i)] : n \in (MaxVisits - 1)..MaxVisits }

\* pd.read_csv gives the rows a RangeIndex
read_csv(rows) == [i \in 1..Len(rows) |-> [index |-> i] @@ rows[i]]

Datasets ==
  { read_csv(rows) :
      rows \in SeqsUpTo(FilterRows, MaxRows) \cup SeqsUpTo(TierRows, MaxRows)
               \cup SeqsUpTo(UnbalancedRows, MaxRows)
               \cup WideDatasets \cup RepeatDatasets }

\* the columns every header of the model has
CommonColumns == {"outlet_city", "luxury_sales", "fresh_sales", "dry_sales"}

\* the header main() reads its columns from
CanonicalHeader ==
  CommonColumns \cup {"Customer_ID", "cluster_catgeory", "Total_sales"}

\* DataFrame.rename(columns={old: new}) on the header
Rename(columns, old, new) ==
  IF old \in columns THEN (columns \ {old}) \cup {new} ELSE columns

\* headers of a CSV file: the customer id and the segment under either
\* spelling, under both, or absent; cluster_name and Total_sales present or not
Headers ==
  { CommonColumns \cup id \cup seg \cup other :
      id \in {{"Customer_ID"}, {"customer_ID"}, {}},
      seg \in {{"cluster_catgeory"}, {"cluster_category"},
               {"cluster_catgeory", "cluster_category"}, {}},
      other \in SUBSET {"cluster_name", "Total_sales"} }

File(status, columns) == [status |-> status, columns |-> columns]

\* GrowEasyAnalytics_1.csv as a call of load_data() may find it: readable
\* with some header, absent (FileNotFoundError), or not parseable
SourceFiles ==
  { File("ok", h) : h \in Headers }
    \cup {File("missing", {}), File("unreadable", {})}

\* the file of st.file_uploader: none, a readable CSV, or not parseable
UploadedFiles ==
  { File("ok", h) : h \in Headers }
    \cup {File("none", {}), File("unreadable", {})}

\* GrowEasyAnalytics_1.csv as a run of main() may find it
MainFiles ==
  { File("ok", CanonicalHeader),
    File("ok", Rename(CanonicalHeader, "cluster_catgeory", "cluster_category")),
    File("missing", {}) }

-----------------------------------------------------------------------------
(* pandas and Python helpers, as main() uses them *)

RECURSIVE SumSeq(_)
SumSeq(s) == IF s = <<>> THEN 0 ELSE s[1] + SumSeq(Tail(s))

Column(frame, col) == [i \in 1..Len(frame) |-> frame[i][col]]

\* Series.unique() / nunique(): the distinct values of a column
Unique(frame, col) == { frame[i][col] : i \in 1..Len(frame) }

ColumnMin(frame, col) ==
  CHOOSE v \in Unique(frame, col) : \A w \in Unique(frame, col) : v <= w

ColumnMax(frame, col) ==
  CHOOSE v \in Unique(frame, col) : \A w \in Unique(frame, col) : v >= w

\* int(x): truncation toward zero of an amount to whole rupees
IntOf(v) == IF v >= 0 THEN v \div Scale ELSE 0 - ((0 - v) \div Scale)

\* a membership test that reads an empty selection as "no restriction"
isinEmptyIsAll(frame, col, values) ==
  [i \in 1..Len(frame) |-> values = {} \/ frame[i][col] \in values]

\* Series.isin(values)
isin(frame, col, values) == [i \in 1..Len(frame) |-> frame[i][col] \in values]

\* df[mask]: the rows whose mask entry is true, index labels kept
RECURSIVE BoolIndex(_, _)
BoolIndex(frame, mask) ==
  IF frame = <<>> THEN <<>>
  ELSE IF mask[1]
       THEN <<frame[1]>> \o BoolIndex(Tail(frame), Tail(mask))
       ELSE BoolIndex(Tail(frame), Tail(mask))

\* the filter with the upper bound of the range excluded
FilterMaskUpperExclusive(frame, cities, segments, range) ==
  LET in_city == isin(frame, "outlet_city", cities)
      in_seg  == isin(frame, "cluster_catgeory", segments)
  IN  [i \in 1..Len(frame) |->
         /\ in_city[i]
         /\ in_seg[i]
         /\ frame[i].Total_sales >= Rs(range[1])
         /\ frame[i].Total_sales < Rs(range[2])]

\* the filter of main(): four boolean Series combined with &
FilterMask(frame, cities, segments, range) ==
  LET in_city == isin(frame, "outlet_city", cities)
      in_seg  == isin(frame, "cluster_catgeory", segments)
  IN  [i \in 1..Len(frame) |->
         /\ in_city[i]
         /\ in_seg[i]
         /\ frame[i].Total_sales >= Rs(range[1])
         /\ frame[i].Total_sales <= Rs(range[2])]

ApplyFilters(frame, cities, segments, range) ==
  BoolIndex(frame, FilterMask(frame, cities, segments, range))

\* sorted(labels): a set of labels as a sequence in string order
RECURSIVE SortLabels(_)
SortLabels(S) ==
  IF S = {} THEN <<>>
  ELSE LET m == CHOOSE x \in S : \A y \in S : Rank(x) <= Rank(y)
       IN  <<m>> \o SortLabels(S \ {m})

\* a grouped "sum" that keeps only the first row of every group
GroupByFirst(frame, key, measure) ==
  LET ks == SortLabels(Unique(frame, key))
  IN  [i \in 1..Len(ks) |->
         [label |-> ks[i],
          value |-> Column(BoolIndex(frame, isin(frame, key, {ks[i]})), measure)[1]]]

\* df.groupby(key)[measure].sum(): one entry per key value that occurs, keys
\* sorted, the value the sum of the measure over the rows with that key
GroupBySum(frame, key, measure) ==
  LET ks == SortLabels(Unique(frame, key))
  IN  [i \in 1..Len(ks) |->
         [label |-> ks[i],
          value |-> SumSeq(Column(BoolIndex(frame, isin(frame, key, {ks[i]})), measure))]]

Values(series) == [i \in 1..Len(series) |-> series[i].value]

\* Series.max() of a non-empty Series
SeriesMax(series) ==
  CHOOSE v \in { series[i].value : i \in 1..Len(series) } :
    \A i \in 1..Len(series) : v >= series[i].value

\* Series.idxmax() of a non-empty Series: the label of the first maximum
idxmax(series) ==
  series[CHOOSE i \in 1..Len(series) :
           /\ series[i].value = SeriesMax(series)
           /\ \A j \in 1..(i - 1) : series[j].value # SeriesMax(series)].label

\* insertion of one entry into a Series sorted by descending value, after the
\* entries of equal value
RECURSIVE InsertDesc(_, _)
InsertDesc(sorted, e) ==
  IF sorted = <<>> THEN <<e>>
  ELSE IF sorted[1].value >= e.value
       THEN <<sorted[1]>> \o InsertDesc(Tail(sorted), e)
       ELSE <<e>> \o sorted

\* Series.sort_values(ascending=False); entries of equal value keep their order
\* (numpy sorts the short arrays of this model by insertion)
RECURSIVE SortValuesDesc(_)
SortValuesDesc(series) ==
  IF series = <<>> THEN <<>>
  ELSE InsertDesc(SortValuesDesc(SubSeq(series, 1, Len(series) - 1)),
                  series[Len(series)])

\* Series.head(n) and Series.tail(n)
Head_(series, n) == SubSeq(series, 1, IF n < Len(series) THEN n ELSE Len(series))
Tail_(series, n) ==
  SubSeq(series, (IF n < Len(series) THEN Len(series) - n ELSE 0) + 1, Len(series))

\* series[label] = value: overwrite the entry with that label, or append one
SetItem(series, label, value) ==
  IF \E i \in 1..Len(series) : series[i].label = label
  THEN [i \in 1..Len(series) |->
          IF series[i].label = label THEN [label |-> label, value |-> value]
          ELSE series[i]]
  ELSE Append(series, [label |-> label, value |-> value])

\* ascending insertion sort of a sequence of numbers
RECURSIVE InsertAsc(_, _)
InsertAsc(sorted, v) ==
  IF sorted = <<>> THEN <<v>>
  ELSE IF sorted[1] <= v
       THEN <<sorted[1]>> \o InsertAsc(Tail(sorted), v)
       ELSE <<v>> \o sorted

RECURSIVE SortAsc(_)
SortAsc(s) ==
  IF s = <<>> THEN <<>>
  ELSE InsertAsc(SortAsc(SubSeq(s, 1, Len(s) - 1)), s[Len(s)])

\* len(df[df['Total_sales'] > df['Total_sales'].quantile(q10 / 10)]) of a
\* non-empty frame; the quantile interpolates linearly between the order
\* statistics around position (n - 1) * q, compared here without rounding
CountAboveQuantile(frame, q10) ==
  LET xs   == SortAsc(Column(frame, "Total_sales"))
      n    == Len(xs)
      pos  == (n - 1) * q10
      lo   == (pos \div 10) + 1
      frac == pos % 10
      hi   == IF lo < n THEN lo + 1 ELSE lo
      q_times_10 == 10 * xs[lo] + frac * (xs[hi] - xs[lo])
  IN  Cardinality({ i \in 1..Len(frame) : 10 * frame[i].Total_sales > q_times_10 })

\* slider bounds of main()
min_sales == IntOf(ColumnMin(df, "Total_sales"))
max_sales == IntOf(ColumnMax(df, "Total_sales"))

SliderStep == 1000

\* the positions a range slider can be left at: min_value + k * step, and the
\* max_value that is its initial upper end
SliderStops(lo, hi) ==
  { lo + k * SliderStep : k \in { j \in 0..MaxSliderSteps : lo + j * SliderStep <= hi } }
    \cup {hi}

\* the selections a multiselect is left at: everything (the default), nothing,
\* one option, all but one option
Choices(options) ==
  {options, {}} \cup { {x} : x \in options } \cup { options \ {x} : x \in options }

-----------------------------------------------------------------------------------------------------------------------------------------------------
(* The aggregations *)

TopN == 10
TopCategoryCities == 8

\* create_hero_metrics: what it presents, in order, and how it ends.  The
\* banner and the three category tiles are out before the top city is looked
\* up; idxmax of an empty Series raises ValueError.
create_hero_metrics(frame) ==
  LET by_city == GroupBySum(frame, "outlet_city", "Total_sales")
      first   == <<"hero_banner", "metric_luxury", "metric_fresh", "metric_dry">>
      sums    == [total_revenue   |-> SumSeq(Column(frame, "Total_sales")),
                  total_customers |-> Cardinality(Unique(frame, "Customer_ID")),
                  total_outlets   |-> Cardinality(Unique(frame, "outlet_city")),
                  luxury_revenue  |-> SumSeq(Column(frame, "luxury_sales")),
                  fresh_revenue   |-> SumSeq(Column(frame, "fresh_sales")),
                  dry_revenue     |-> SumSeq(Column(frame, "dry_sales"))]
  IN  IF by_city = <<>>
      THEN [error  |-> "ValueError",
            emits  |-> first,
            result |-> sums @@ [top_city |-> "", top_city_revenue |-> 0,
                                high_value_customers |-> 0]]
      ELSE [error  |-> "none",
            emits  |-> first \o <<"metric_top_city", "metric_premium">>,
            result |-> sums @@ [top_city |-> idxmax(by_city),
                                top_city_revenue |-> SeriesMax(by_city),
                                high_value_customers |-> CountAboveQuantile(frame, 8)]]

\* max(categories, key=categories.get): the first key of the dict with the
\* greatest value
TopCategory(frame) ==
  idxmax(<<[label |-> "Luxury", value |-> SumSeq(Column(frame, "luxury_sales"))],
           [label |-> "Fresh", value |-> SumSeq(Column(frame, "fresh_sales"))],
           [label |-> "Dry Goods", value |-> SumSeq(Column(frame, "dry_sales"))]>>)

\* create_customer_insights_box: the four insights, or the ValueError of
\* idxmax on an empty Series
create_customer_insights_box(frame) ==
  LET by_segment == GroupBySum(frame, "cluster_catgeory", "Total_sales")
      by_city    == GroupBySum(frame, "outlet_city", "Total_sales")
  IN  IF by_segment = <<>>
      THEN [error |-> "ValueError", result |-> <<>>]
      ELSE [error |-> "none",
            result |->
              <<[top_segment |-> idxmax(by_segment),
                 top_segment_revenue |-> SeriesMax(by_segment),
                 top_city |-> idxmax(by_city),
                 top_city_customers |->
                   Cardinality(Unique(BoolIndex(frame,
                       isin(frame, "outlet_city", {idxmax(by_city)})), "Customer_ID")),
                 top_category |-> TopCategory(frame),
                 high_spenders |-> CountAboveQuantile(frame, 9),
                 total_customers |-> Cardinality(Unique(frame, "Customer_ID"))]>>]

\* create_category_donut_chart: the three category sums
create_category_donut_chart(frame) ==
  <<[label |-> "Luxury Sales", value |-> SumSeq(Column(frame, "luxury_sales"))],
    [label |-> "Fresh Sales", value |-> SumSeq(Column(frame, "fresh_sales"))],
    [label |-> "Dry Goods Sales", value |-> SumSeq(Column(frame, "dry_sales"))]>>

\* create_city_revenue_donut: the slices (city_data) of the chart
create_city_revenue_donut(frame) ==
  LET city_revenue == SortValuesDesc(GroupBySum(frame, "outlet_city", "Total_sales"))
  IN  IF Len(city_revenue) > TopN
      THEN LET top_cities == Head_(city_revenue, TopN)
               others_sum == SumSeq(Values(Tail_(city_revenue, Len(city_revenue) - TopN)))
           IN  IF others_sum > 0
               THEN SetItem(top_cities, "Others", others_sum)
               ELSE top_cities
      ELSE city_revenue

\* create_cluster_donut_chart
create_cluster_donut_chart(frame) ==
  GroupBySum(frame, "cluster_catgeory", "Total_sales")

\* create_top_cities_luxury_donut and create_fresh_sales_donut
create_top_cities_donut(frame, measure) ==
  Head_(SortValuesDesc(GroupBySum(frame, "outlet_city", measure)), TopCategoryCities)

\* the finite edges of the spending tiers, in rupees; the last tier has the
\* upper edge float('inf')
TierBins == <<0, 2000, 5000, 10000, 20000>>

TierLabels ==
  <<"Low (0-2K)", "Medium (2K-5K)", "High (5K-10K)", "Premium (10K-20K)", "VIP (20K+)">>

\* pd.cut(x, bins, labels) with its defaults right=True, include_lowest=False:
\* bin i is (edge i, edge i+1]; a value in no bin becomes NaN
InBin(v, i) ==
  /\ Rs(TierBins[i]) < v
  /\ \/ i = Len(TierBins)
     \/ v <= Rs(TierBins[i + 1])

cut(v) ==
  IF \E i \in 1..Len(TierBins) : InBin(v, i)
  THEN TierLabels[CHOOSE i \in 1..Len(TierBins) : InBin(v, i)]
  ELSE "NaN"

\* Series.value_counts() of a categorical: every category with its count,
\* greatest first; NaN is not counted
value_counts(cats) ==
  SortValuesDesc([i \in 1..Len(TierLabels) |->
    [label |-> TierLabels[i],
     value |-> Cardinality({ j \in 1..Len(cats) : cats[j] = TierLabels[i] })]])

\* create_customer_spending_tiers_donut: the tier of every row and the counts
create_customer_spending_tiers_donut(frame) ==
  LET spending_ranges == [i \in 1..Len(frame) |-> cut(frame[i].Total_sales)]
  IN  [spending_ranges |-> spending_ranges,
       tier_counts |-> value_counts(spending_ranges)]

\* what create_city_revenue_donut leaves of the frame it is handed: line
\* 459 assigns 'Others' into top_cities, the Series head() has returned
FrameAfterCityDonut(frame) == frame

\* a tier function that assigns the tier column to the frame it is handed
FrameAfterTiersInPlace(frame) ==
  [i \in 1..Len(frame) |-> frame[i] @@ [spending_ranges |-> cut(frame[i].Total_sales)]]

\* what create_customer_spending_tiers_donut leaves of the frame it is
\* handed: it works on df.copy() (line 652) and keeps the tiers in a Series
FrameAfterTiers(frame) == frame

\* the rows of one (city, segment) pair
PairRows(frame, pair) ==
  LET InPair(r) == r.outlet_city = pair[1] /\ r.cluster_catgeory = pair[2]
  IN  SelectSeq(frame, InPair)

\* the (city, segment) pairs that occur, in groupby's sorted order
OccurringPairs(frame) ==
  LET cities == SortLabels(Unique(frame, "outlet_city"))
      segs   == SortLabels(Unique(frame, "cluster_catgeory"))
      pairs  == [k \in 1..(Len(cities) * Len(segs)) |->
                   <<cities[((k - 1) \div Len(segs)) + 1],
                     segs[((k - 1) % Len(segs)) + 1]>>]
      Occurs(pair) == PairRows(frame, pair) # <<>>
  IN  SelectSeq(pairs, Occurs)

\* a pair aggregation that keeps the Total_sales of the first row of a pair
GroupByPairFirst(frame) ==
  LET pairs == OccurringPairs(frame)
  IN  [k \in 1..Len(pairs) |->
         [outlet_city |-> pairs[k][1], cluster_catgeory |-> pairs[k][2],
          Total_sales |-> PairRows(frame, pairs[k])[1].Total_sales,
          Customer_ID |-> Cardinality(Unique(PairRows(frame, pairs[k]), "Customer_ID"))]]

\* df.groupby(['outlet_city', 'cluster_catgeory']).agg({'Total_sales': 'sum',
\* 'Customer_ID': 'nunique'}).reset_index(): one row per pair that occurs
GroupByPairAgg(frame) ==
  LET pairs == OccurringPairs(frame)
  IN  [k \in 1..Len(pairs) |->
         [outlet_city |-> pairs[k][1], cluster_catgeory |-> pairs[k][2],
          Total_sales |-> SumSeq(Column(PairRows(frame, pairs[k]), "Total_sales")),
          Customer_ID |-> Cardinality(Unique(PairRows(frame, pairs[k]), "Customer_ID"))]]

\* data.pivot(index='outlet_city', columns='cluster_catgeory',
\* values='Total_sales'): a cell is <<value>>, or <<>> (NaN) for a pair
\* without a row
pivot(data) ==
  LET index   == SortLabels(Unique(data, "outlet_city"))
      columns == SortLabels(Unique(data, "cluster_catgeory"))
      Cell(i, j) ==
        LET hits == { k \in 1..Len(data) : /\ data[k].outlet_city = index[i]
                                           /\ data[k].cluster_catgeory = columns[j] }
        IN  IF hits = {} THEN <<>> ELSE <<data[CHOOSE k \in hits : TRUE].Total_sales>>
  IN  [index |-> index, columns |-> columns,
       values |-> [i \in 1..Len(index) |-> [j \in 1..Len(columns) |-> Cell(i, j)]]]

\* DataFrame.fillna(value)
fillna(table, value) ==
  [table EXCEPT !.values =
     [i \in 1..Len(table.index) |->
        [j \in 1..Len(table.columns) |->
           IF table.values[i][j] = <<>> THEN value ELSE table.values[i][j][1]]]]

\* create_sales_trends_heatmap: pivot_revenue, the matrix of the heatmap
create_sales_trends_heatmap(frame) == fillna(pivot(GroupByPairAgg(frame)), 0)

\* DataFrame.sample(n=PandasSampleSize, random_state=0): rows at positions
\* that the seed and the length fix; here consecutive ones from sample_start
Sample(frame) ==
  [k \in 1..PandasSampleSize |-> frame[((sample_start + k - 1) % Len(frame)) + 1]]

\* st.cache_data's key of a DataFrame argument: its shape and a hash of its
\* content (index and values), the content of a sample when the frame has
\* PandasRowsLarge rows or more; the hash is taken as the content itself
CacheKey(frame) ==
  IF Len(frame) >= PandasRowsLarge
  THEN <<Len(frame), Sample(frame)>>
  ELSE <<Len(frame), frame>>

-----------------------------------------------------------------------------
(* load_data *)

expected_columns ==
  {"Customer_ID", "outlet_city", "luxury_sales", "fresh_sales", "dry_sales",
   "cluster_name", "Total_sales"}

\* the result of a call: the header of the returned dataset, or what the
\* call has shown before st.stop() ended the run
Returned(columns, shown) ==
  [status |-> "returned", columns |-> columns, shown |-> shown, missing |-> {}]

Stopped(shown, missing) ==
  [status |-> "stopped", columns |-> {}, shown |-> shown, missing |-> missing]

NotCalled == [status |-> "not_called", columns |-> {}, shown |-> <<>>, missing |-> {}]

\* lines 912-913: cluster_category becomes cluster_catgeory unless the
\* header has cluster_catgeory already
RenameSegment(columns) ==
  IF "cluster_category" \in columns /\ "cluster_catgeory" \notin columns
  THEN Rename(columns, "cluster_category", "cluster_catgeory")
  ELSE columns

\* lines 920-927
missing_columns(columns) ==
  (expected_columns \ columns)
    \cup (IF "cluster_catgeory" \notin columns THEN {"cluster_catgeory"} ELSE {})

\* the try block, lines 904-933, on a file that pd.read_csv has read
LoadPrimary(columns) ==
  IF "cluster_catgeory" \notin columns /\ "cluster_category" \notin columns
  THEN Stopped(<<"error_segment_not_found", "error_available_columns">>,
               {"cluster_catgeory"})
  ELSE IF missing_columns(RenameSegment(columns)) # {}
       THEN Stopped(<<"error_missing_columns", "error_available_columns">>,
                    missing_columns(RenameSegment(columns)))
       ELSE Returned(RenameSegment(columns), <<>>)

\* the upload fallback of both except blocks, lines 943-956 and 965-975
LoadUploaded(upload, shown) ==
  IF upload.status = "none"
  THEN Stopped(shown, {})
  ELSE IF upload.status = "ok"
       THEN Returned(RenameSegment(upload.columns), shown)
       ELSE Stopped(shown \o <<"error_reading_upload">>, {})

load_data(file, upload) ==
  IF file.status = "ok"
  THEN LoadPrimary(file.columns)
  ELSE IF file.status = "missing"
       THEN LoadUploaded(upload, <<"error_file_not_found", "upload_prompt">>)
       ELSE LoadUploaded(upload, <<"error_loading", "upload_prompt">>)

-----------------------------------------------------------------------------
(* State machine *)

NoHero ==
  [total_revenue |-> 0, total_customers |-> 0, total_outlets |-> 0,
   luxury_revenue |-> 0, fresh_revenue |-> 0, dry_revenue |-> 0,
   top_city |-> "", top_city_revenue |-> 0, high_value_customers |-> 0]

NoCharts ==
  [category |-> <<>>, city_data |-> <<>>, cluster_data |-> <<>>,
   city_luxury |-> <<>>, city_fresh |-> <<>>,
   spending_ranges |-> <<>>, tier_counts |-> <<>>,
   pivot_revenue |-> [index |-> <<>>, columns |-> <<>>, values |-> <<>>]]

Init ==
  /\ df \in Datasets
  /\ pc = "start"
  /\ selected_cities = {}
  /\ selected_segments = {}
  /\ sales_range = <<0, 0>>
  /\ filtered_df = <<>>
  /\ emitted = <<>>
  /\ outcome = "running"
  /\ hero = NoHero
  /\ insights = <<>>
  /\ charts = NoCharts
  /\ source_file \in MainFiles
  /\ uploaded_file = File("none", {})
  /\ loaded = NotCalled
  /\ cache = {}
  /\ runs = 1
  /\ sample_start = 0

\* an uncaught exception ends the run: Streamlit shows the exception below
\* what the run has already put on the page
Raise(error, shown) ==
  /\ emitted' = shown \o <<"exception">>
  /\ outcome' = error
  /\ pc' = "failed"

\* the columns main() and its aggregations index the dataset by
MainColumns == CanonicalHeader

\* main(), lines 117-170: read the file, header, sidebar widgets, filter,
\* dataset info.  pd.read_csv raises FileNotFoundError on a missing file,
\* df[column] raises KeyError on a column the header does not have, and
\* int(nan) raises ValueError when the dataset has no rows.
Sidebar ==
  /\ pc = "start"
  /\ IF source_file.status # "ok"
     THEN /\ Raise("FileNotFoundError", <<>>)
          /\ UNCHANGED <<selected_cities, selected_segments, sales_range, filtered_df>>
     ELSE IF ~(MainColumns \subseteq source_file.columns)
     THEN /\ Raise("KeyError", <<"header">>)
          /\ UNCHANGED <<selected_cities, selected_segments, sales_range, filtered_df>>
     ELSE IF df = <<>>
     THEN /\ Raise("ValueError", <<"header">>)
          /\ UNCHANGED <<selected_cities, selected_segments, sales_range, filtered_df>>
     ELSE \E cities \in Choices(Unique(df, "outlet_city")),
             segments \in Choices(Unique(df, "cluster_catgeory")),
             lo \in SliderStops(min_sales, max_sales),
             hi \in SliderStops(min_sales, max_sales) :
            /\ lo <= hi
            /\ selected_cities' = cities
            /\ selected_segments' = segments
            /\ sales_range' = <<lo, hi>>
            /\ filtered_df' = ApplyFilters(df, cities, segments, <<lo, hi>>)
            /\ emitted' = <<"header", "sidebar_info">>
            /\ pc' = "hero"
            /\ UNCHANGED outcome
  /\ UNCHANGED <<inputVars, hero, insights, charts, loaded, cache, runs>>

\* main(), line 173
HeroMetrics ==
  /\ pc = "hero"
  /\ LET r == create_hero_metrics(filtered_df)
     IN  /\ hero' = r.result
         /\ IF r.error = "none"
            THEN /\ emitted' = emitted \o r.emits
                 /\ pc' = "insights"
                 /\ UNCHANGED outcome
            ELSE Raise(r.error, emitted \o r.emits)
  /\ UNCHANGED <<inputVars, selected_cities, selected_segments, sales_range,
                 filtered_df, insights, charts, loaded, cache, runs>>

\* main(), lines 175-185.  create_customer_insights_box is decorated with
\* @st.cache_data: a result stored under the argument's key is returned
\* without a call; the result of a call is stored, an exception is not.
Insights ==
  /\ pc = "insights"
  /\ LET key == CacheKey(filtered_df)
         hit == \E c \in cache : c.key = key
         r   == IF hit
                THEN [error |-> "none", result |-> (CHOOSE c \in cache : c.key = key).value]
                ELSE create_customer_insights_box(filtered_df)
     IN  /\ insights' = r.result
         /\ cache' = IF hit \/ r.error # "none"
                     THEN cache
                     ELSE cache \cup {[key |-> key, value |-> r.result]}
         /\ IF r.error = "none"
            THEN /\ emitted' = emitted \o <<"insights_header", "insight_1", "insight_2",
                                            "insight_3", "insight_4">>
                 /\ pc' = "distribution"
                 /\ UNCHANGED outcome
            ELSE Raise(r.error, emitted \o <<"insights_header">>)
  /\ UNCHANGED <<inputVars, selected_cities, selected_segments, sales_range,
                 filtered_df, hero, charts, loaded, runs>>

\* main(), lines 187-210: the three distribution donuts
DistributionCharts ==
  /\ pc = "distribution"
  /\ charts' = [charts EXCEPT
                  !.category = create_category_donut_chart(filtered_df),
                  !.city_data = create_city_revenue_donut(filtered_df),
                  !.cluster_data = create_cluster_donut_chart(filtered_df)]
  /\ filtered_df' = FrameAfterCityDonut(filtered_df)
  /\ emitted' = emitted \o <<"chart_category", "chart_city", "chart_cluster">>
  /\ pc' = "category"
  /\ UNCHANGED <<inputVars, selected_cities, selected_segments, sales_range,
                 outcome, hero, insights, loaded, cache, runs>>

\* main(), lines 212-232: luxury and fresh donuts and the spending tiers
CategoryCharts ==
  /\ pc = "category"
  /\ LET t == create_customer_spending_tiers_donut(filtered_df)
     IN  charts' = [charts EXCEPT
                      !.city_luxury = create_top_cities_donut(filtered_df, "luxury_sales"),
                      !.city_fresh = create_top_cities_donut(filtered_df, "fresh_sales"),
                      !.spending_ranges = t.spending_ranges,
                      !.tier_counts = t.tier_counts]
  /\ filtered_df' = FrameAfterTiers(filtered_df)
  /\ emitted' = emitted \o <<"chart_luxury", "chart_fresh", "chart_tiers">>
  /\ pc' = "advanced"
  /\ UNCHANGED <<inputVars, selected_cities, selected_segments, sales_range,
                 outcome, hero, insights, loaded, cache, runs>>

\* main(), lines 234-326: segment breakdown, racing bar, scatter, heatmap,
\* metrics table, data explorer and footer.  plotly rejects a negative marker
\* size, so the scatter plot raises ValueError on a negative Total_sales.
Remaining ==
  /\ pc = "advanced"
  /\ IF \E i \in 1..Len(filtered_df) : filtered_df[i].Total_sales < 0
     THEN /\ Raise("ValueError", emitted \o <<"chart_breakdown", "chart_racing">>)
          /\ UNCHANGED charts
     ELSE /\ charts' = [charts EXCEPT
                          !.pivot_revenue = create_sales_trends_heatmap(filtered_df)]
          /\ emitted' = emitted \o <<"chart_breakdown", "chart_racing", "chart_scatter",
                                     "chart_heatmap", "metrics_table", "data_explorer",
                                     "footer">>
          /\ outcome' = "ok"
          /\ pc' = "done"
  /\ UNCHANGED <<inputVars, selected_cities, selected_segments, sales_range,
                 filtered_df, hero, insights, loaded, cache, runs>>

\* the next user interaction: Streamlit runs main() again from the top; the
\* cache of st.cache_data outlives the run
Rerun ==
  /\ pc \in {"done", "failed"}
  /\ runs < MaxRuns
  /\ runs' = runs + 1
  /\ pc' = "start"
  /\ selected_cities' = {}
  /\ selected_segments' = {}
  /\ sales_range' = <<0, 0>>
  /\ filtered_df' = <<>>
  /\ emitted' = <<>>
  /\ outcome' = "running"
  /\ hero' = NoHero
  /\ insights' = <<>>
  /\ charts' = NoCharts
  /\ UNCHANGED <<inputVars, loaded, cache>>

\* the steps of one run of main()
Run ==
  \/ Sidebar
  \/ HeroMetrics
  \/ Insights
  \/ DistributionCharts
  \/ CategoryCharts
  \/ Remaining

Next ==
  \/ Run
  \/ Rerun

\* one interaction, on every dataset of the model
Spec == Init /\ [][Run]_vars

\* the datasets of a session: three rows of one customer in one city
SessionRows ==
  { r \in FilterRows : r.outlet_city = "Colombo" /\ r.Customer_ID = "C1" }

SessionDatasets == { read_csv(rows) : rows \in [1..3 -> SessionRows] }

\* a session of up to MaxRuns interactions on a three-row dataset
InitSession ==
  /\ df \in SessionDatasets
  /\ pc = "start"
  /\ selected_cities = {}
  /\ selected_segments = {}
  /\ sales_range = <<0, 0>>
  /\ filtered_df = <<>>
  /\ emitted = <<>>
  /\ outcome = "running"
  /\ hero = NoHero
  /\ insights = <<>>
  /\ charts = NoCharts
  /\ source_file = File("ok", CanonicalHeader)
  /\ uploaded_file = File("none", {})
  /\ loaded = NotCalled
  /\ cache = {}
  /\ runs = 1
  /\ sample_start \in 0..PandasRowsLarge

SpecSession == InitSession /\ [][Next]_vars

\* a call of load_data(): the file and the upload are any of those above
InitLoad ==
  /\ df = <<>>
  /\ pc = "start"
  /\ selected_cities = {}
  /\ selected_segments = {}
  /\ sales_range = <<0, 0>>
  /\ filtered_df = <<>>
  /\ emitted = <<>>
  /\ outcome = "running"
  /\ hero = NoHero
  /\ insights = <<>>
  /\ charts = NoCharts
  /\ source_file \in SourceFiles
  /\ uploaded_file \in UploadedFiles
  /\ loaded = NotCalled
  /\ cache = {}
  /\ runs = 1
  /\ sample_start = 0

LoadData ==
  /\ loaded = NotCalled
  /\ loaded' = load_data(source_file, uploaded_file)
  /\ UNCHANGED <<inputVars, pc, selected_cities, selected_segments, sales_range,
                 filtered_df, emitted, outcome, hero, insights, charts, cache, runs>>

SpecLoad == InitLoad /\ [][LoadData]_vars

-----------------------------------------------------------------------------
(* Properties *)

\* the filter of the current run has been applied
FilterApplied ==
  /\ pc # "start"
  /\ df # <<>>
  /\ source_file.status = "ok"
  /\ MainColumns \subseteq source_file.columns

\* the three predicates of the filter, on one row
Passes(r) ==
  /\ r.outlet_city \in selected_cities
  /\ r.cluster_catgeory \in selected_segments
  /\ Rs(sales_range[1]) <= r.Total_sales
  /\ r.Total_sales <= Rs(sales_range[2])

\* C1: the filtered dataset is exactly the rows of the source, in their
\* original order, that are in a selected city and a selected segment and
\* have lo <= Total_sales <= hi: nothing else is kept, nothing of it dropped.
C1_FilterExact ==
  FilterApplied =>
    /\ \A k \in 1..Len(filtered_df) :
         /\ filtered_df[k].index \in 1..Len(df)
         /\ filtered_df[k] = df[filtered_df[k].index]
         /\ Passes(filtered_df[k])
    /\ \A k \in 1..(Len(filtered_df) - 1) :
         filtered_df[k].index < filtered_df[k + 1].index
    /\ \A i \in 1..Len(df) :
         Passes(df[i]) => \E k \in 1..Len(filtered_df) : filtered_df[k].index = i

\* rows kept and rows dropped, a kept row on each end of the range
C1_Witness ==
  /\ FilterApplied
  /\ Len(filtered_df) >= 2
  /\ Len(filtered_df) < Len(df)
  /\ \E k \in 1..Len(filtered_df) : filtered_df[k].Total_sales = Rs(sales_range[1])
  /\ \E k \in 1..Len(filtered_df) : filtered_df[k].Total_sales = Rs(sales_range[2])

\* C2: with no city selected, or no segment selected, the filtered dataset
\* is empty, whatever the range and the other selection.
C2_EmptySelectionEmptyResult ==
  (FilterApplied /\ (selected_cities = {} \/ selected_segments = {}))
    => filtered_df = <<>>

\* no city selected, every segment selected, every row inside the range
C2_Witness ==
  /\ FilterApplied
  /\ selected_cities = {}
  /\ selected_segments = Unique(df, "cluster_catgeory")
  /\ \A i \in 1..Len(df) :
       /\ Rs(sales_range[1]) <= df[i].Total_sales
       /\ df[i].Total_sales <= Rs(sales_range[2])
  /\ filtered_df = <<>>

\* no row of the source has a negative amount (the data model's amounts)
NonNegative ==
  \A i \in 1..Len(df) :
    /\ df[i].Total_sales >= 0
    /\ df[i].luxury_sales >= 0
    /\ df[i].fresh_sales >= 0
    /\ df[i].dry_sales >= 0

\* the widgets are as main() initialises them
DefaultCriteria ==
  /\ FilterApplied
  /\ selected_cities = Unique(df, "outlet_city")
  /\ selected_segments = Unique(df, "cluster_catgeory")
  /\ sales_range = <<min_sales, max_sales>>

\* C3: the default range runs from the observed minimum to the observed
\* maximum of Total_sales, so that under the default criteria every source
\* row passes the filter, also when amounts are not whole rupees.  Stated
\* for sources without negative amounts whose slider has two distinct ends.
C3_DefaultRangeKeepsAll ==
  (DefaultCriteria /\ NonNegative /\ min_sales < max_sales) =>
    /\ Rs(sales_range[1]) = ColumnMin(df, "Total_sales")
    /\ Rs(sales_range[2]) = ColumnMax(df, "Total_sales")
    /\ sales_range[1] <= sales_range[2]
    /\ filtered_df = df

\* the distribution donuts of the current run have just been computed
DistributionDone == pc = "category"

Keys == {"outlet_city", "cluster_catgeory"}
Measures == {"Total_sales", "luxury_sales", "fresh_sales", "dry_sales"}

Conserves(frame, key, measure) ==
  LET g == GroupBySum(frame, key, measure)
  IN  /\ SumSeq(Values(g)) = SumSeq(Column(frame, measure))
      /\ { g[i].label : i \in 1..Len(g) } = Unique(frame, key)
      /\ Len(g) = Cardinality(Unique(frame, key))

\* C4: for the source and for the filtered set, and for every key and
\* measure of the dashboard, the grouped sums add up to the sum of the
\* measure over all rows, and the group labels are exactly the key values
\* that occur; the segment donut adds up to the hero's total revenue.
C4_GroupSumConservation ==
  DistributionDone =>
    /\ \A key \in Keys, measure \in Measures :
         Conserves(df, key, measure) /\ Conserves(filtered_df, key, measure)
    /\ SumSeq(Values(charts.cluster_data)) = hero.total_revenue
    /\ { charts.cluster_data[i].label : i \in 1..Len(charts.cluster_data) }
         = Unique(filtered_df, "cluster_catgeory")

\* several groups, and a group of several rows
C4_Witness ==
  /\ DistributionDone
  /\ Len(charts.cluster_data) >= 2
  /\ Len(filtered_df) > Len(charts.cluster_data)
  /\ hero.total_revenue # 0

\* the summed Total_sales of the filtered rows of a set of cities
CityTotal(S) ==
  LET InS(r) == r.outlet_city \in S
  IN  SumSeq(Column(SelectSeq(filtered_df, InS), "Total_sales"))

\* C5: the city donut has one slice per city when there are at most TopN
\* cities; otherwise the TopN cities of greatest revenue, descending, and an
\* 'Others' slice with the sum of the remaining cities, left out only when
\* that sum is zero.  The slices add up to the total, and every city's slice
\* carries that city's sum.  Stated for sources without negative amounts.
C5_TopNWithOthers ==
  (DistributionDone /\ NonNegative) =>
    LET data   == charts.city_data
        cities == Unique(filtered_df, "outlet_city")
        top    == { data[i].label : i \in 1..(IF Len(data) < TopN THEN Len(data) ELSE TopN) }
    IN  /\ SumSeq(Values(data)) = SumSeq(Column(filtered_df, "Total_sales"))
        /\ \A i \in 1..Len(data) : i <= TopN => data[i].value = CityTotal({data[i].label})
        /\ \A i \in 1..(Len(data) - 1) : i < TopN => data[i].value >= data[i + 1].value
        /\ IF Cardinality(cities) <= TopN
           THEN /\ Len(data) = Cardinality(cities)
                /\ top = cities
           ELSE /\ top \subseteq cities
                /\ Cardinality(top) = TopN
                /\ \A c \in cities \ top : CityTotal({c}) <= data[TopN].value
                /\ IF CityTotal(cities \ top) = 0
                   THEN Len(data) = TopN
                   ELSE /\ Len(data) = TopN + 1
                        /\ data[TopN + 1] =
                             [label |-> "Others", value |-> CityTotal(cities \ top)]

\* the spending tiers of the current run have just been computed
TiersDone == pc = "advanced"

\* C6: the five tiers partition the filtered set: every filtered row is in
\* exactly one tier and the tier counts add up to the number of rows.
C6_TiersPartition ==
  TiersDone =>
    /\ \A i \in 1..Len(filtered_df) :
         \E j \in 1..Len(TierLabels) : charts.spending_ranges[i] = TierLabels[j]
    /\ SumSeq(Values(charts.tier_counts)) = Len(filtered_df)

\* C7: the first tier includes its lower edge 0, and every tier includes its
\* upper edge: 0 and 2000 are Low, 5000 is Medium, 10000 is High, 20000 is
\* Premium, anything above 20000 is VIP.
C7_TierEdges ==
  TiersDone =>
    \A i \in 1..Len(filtered_df) :
      LET v == filtered_df[i].Total_sales
          t == charts.spending_ranges[i]
      IN  /\ v = Rs(0) => t = "Low (0-2K)"
          /\ v = Rs(2000) => t = "Low (0-2K)"
          /\ v = Rs(5000) => t = "Medium (2K-5K)"
          /\ v = Rs(10000) => t = "High (5K-10K)"
          /\ v = Rs(20000) => t = "Premium (10K-20K)"
          /\ v > Rs(20000) => t = "VIP (20K+)"

\* C8: a row below the first tier edge makes the tier chart end in an
\* OutOfRangeError shown to the user: the tiers are never counted and
\* presented without it.
C8_OutOfRangeSurfaced ==
  (TiersDone /\ \E i \in 1..Len(filtered_df) : filtered_df[i].Total_sales < Rs(0))
    => /\ outcome = "OutOfRangeError"
       /\ \A k \in 1..Len(emitted) : emitted[k] # "chart_tiers"

\* C9: on an empty filtered set the single-value metrics fail with a guarded
\* NoDataError, shown as a neutral "no data" state, never with the error of
\* taking the maximum of an empty collection.
C9_NoDataGuarded ==
  (FilterApplied /\ filtered_df = <<>> /\ pc # "hero")
    => /\ outcome = "NoDataError"
       /\ \A k \in 1..Len(emitted) : emitted[k] # "exception"
       /\ create_customer_insights_box(filtered_df).error = "NoDataError"

\* what a run presents that it has computed from the filtered set
ComputedElements ==
  {"hero_banner", "metric_luxury", "metric_fresh", "metric_dry", "metric_top_city",
   "metric_premium", "insight_1", "insight_2", "insight_3", "insight_4",
   "chart_category", "chart_city", "chart_cluster", "chart_luxury", "chart_fresh",
   "chart_tiers", "chart_breakdown", "chart_racing", "chart_scatter",
   "chart_heatmap", "metrics_table", "data_explorer"}

\* C10: presentation is all or nothing: a run that has failed has presented
\* nothing it computed, only the error.
C10_AllOrNothing ==
  pc = "failed" =>
    \A k \in 1..Len(emitted) : emitted[k] \notin ComputedElements

\* the hero metrics, the first aggregation of a run, have read filtered rows
AggregationRan ==
  /\ filtered_df # <<>>
  /\ \E k \in 1..Len(emitted) : emitted[k] = "hero_banner"

\* C11: in every run of main() the dataset goes through load_data's schema
\* normalisation and required-column check before it is filtered and
\* aggregated: no aggregation reads a dataset load_data has not returned.
C11_NormalizedBeforeUse ==
  AggregationRan =>
    /\ loaded.status = "returned"
    /\ CanonicalHeader \subseteq loaded.columns

\* load_data has been called and has ended
Called == loaded # NotCalled

\* the required fields of the data model, each with its known spellings
RequiredFields ==
  { {"Customer_ID", "customer_ID"}, {"cluster_catgeory", "cluster_category"},
    {"outlet_city"}, {"luxury_sales"}, {"fresh_sales"}, {"dry_sales"},
    {"Total_sales"} }

Present(columns, spellings) == columns \cap spellings # {}

\* a CSV has been read, and this is its header
FileRead == source_file.status = "ok" \/ uploaded_file.status = "ok"

HeaderRead ==
  IF source_file.status = "ok" THEN source_file.columns ELSE uploaded_file.columns

\* C12: on every path through load_data (the file, the upload after a
\* missing file, the upload after another load error) a dataset is returned
\* only with every required column under its canonical name; when the
\* header lacks a required field under every known spelling, load_data
\* reports the missing fields and the available columns and stops.
C12_ReturnedOnlyIfComplete ==
  Called =>
    /\ loaded.status = "returned" => CanonicalHeader \subseteq loaded.columns
    /\ (FileRead /\ \E f \in RequiredFields : ~Present(HeaderRead, f)) =>
         /\ loaded.status = "stopped"
         /\ loaded.missing # {}
         /\ \E k \in 1..Len(loaded.shown) : loaded.shown[k] = "error_available_columns"

\* C13: a readable file whose header has the segment column under either
\* spelling, the customer id under either spelling, and every other
\* required field is returned, with the canonical names.  Stated for
\* headers that also have cluster_name, which load_data expects as well.
C13_VariantsAccepted ==
  ( /\ Called
    /\ source_file.status = "ok"
    /\ \A f \in RequiredFields : Present(source_file.columns, f)
    /\ "cluster_name" \in source_file.columns )
    => /\ loaded.status = "returned"
       /\ CanonicalHeader \subseteq loaded.columns

\* the hero metrics of the current run have just been computed
HeroDone == pc = "insights"

Balanced(r) == r.Total_sales = r.luxury_sales + r.fresh_sales + r.dry_sales

\* C14: before an aggregation uses Total_sales the pipeline has validated
\* or recomputed it as luxury + fresh + dry on every record, so that the
\* hero's luxury, fresh and dry revenues add up to the total chain revenue
\* it shows (and the three shares, revenue / total * 100, to 100%).
C14_TotalIsSumOfCategories ==
  HeroDone =>
    /\ \A k \in 1..Len(filtered_df) : Balanced(filtered_df[k])
    /\ hero.luxury_revenue + hero.fresh_revenue + hero.dry_revenue
         = hero.total_revenue

\* the insights of the current run have just been computed
InsightsDone == pc = "distribution"

\* C18: on a non-empty filtered set the premium-spender percentage,
\* high_spenders / total_customers * 100, lies between 0% and 100%, also
\* when one customer has several records.
C18_PremiumShareWithinBounds ==
  (InsightsDone /\ filtered_df # <<>>) =>
    /\ insights[1].total_customers > 0
    /\ 0 <= insights[1].high_spenders * 100
    /\ insights[1].high_spenders * 100 <= 100 * insights[1].total_customers

\* C15: a run leaves the source dataset as it was read (records, order,
\* columns, values), and every aggregation leaves the filtered view as it
\* was handed to it: neither the 'Others' slice of the city donut nor the
\* tier labels are written into it.
C15_FramePreserved ==
  [][ pc' # "start" =>
        /\ df' = df
        /\ pc # "start" => filtered_df' = filtered_df ]_vars

\* a whole run in which line 459 has assigned the 'Others' slice (more than
\* TopN cities, the remaining ones with revenue) and the tiers were counted
C15_Witness ==
  /\ pc = "done"
  /\ LET city_revenue ==
           SortValuesDesc(GroupBySum(filtered_df, "outlet_city", "Total_sales"))
     IN  /\ Len(city_revenue) > TopN
         /\ SumSeq(Values(Tail_(city_revenue, Len(city_revenue) - TopN))) > 0
  /\ \E k \in 1..Len(charts.city_data) : charts.city_data[k].label = "Others"
  /\ SumSeq(Values(charts.tier_counts)) > 0
  /\ filtered_df = df

\* the heatmap of the current run has been computed
HeatmapDone == pc = "done"

\* C16: the heatmap's matrix has one row per city and one column per
\* segment of the filtered set; a cell is the sum of Total_sales over the
\* filtered rows of that city and segment, 0 when there is none; all cells
\* together add up to the Total_sales of the filtered set.
C16_CrossTab ==
  HeatmapDone =>
    LET t == charts.pivot_revenue
    IN  /\ { t.index[i] : i \in 1..Len(t.index) } = Unique(filtered_df, "outlet_city")
        /\ Len(t.index) = Cardinality(Unique(filtered_df, "outlet_city"))
        /\ { t.columns[j] : j \in 1..Len(t.columns) }
             = Unique(filtered_df, "cluster_catgeory")
        /\ Len(t.columns) = Cardinality(Unique(filtered_df, "cluster_catgeory"))
        /\ \A i \in 1..Len(t.index), j \in 1..Len(t.columns) :
             t.values[i][j] =
               SumSeq(Column(PairRows(filtered_df, <<t.index[i], t.columns[j]>>),
                             "Total_sales"))
        /\ SumSeq([i \in 1..Len(t.index) |-> SumSeq(t.values[i])])
             = SumSeq(Column(filtered_df, "Total_sales"))

\* a cell that sums several rows of different amounts, and a cell of a pair
\* that no row has
C16_Witness ==
  /\ HeatmapDone
  /\ \E i \in 1..Len(charts.pivot_revenue.index),
         j \in 1..Len(charts.pivot_revenue.columns) :
        LET rows == PairRows(filtered_df,
                             <<charts.pivot_revenue.index[i],
                               charts.pivot_revenue.columns[j]>>)
        IN  /\ Len(rows) >= 2
            /\ rows[1].Total_sales # rows[2].Total_sales
            /\ charts.pivot_revenue.values[i][j] > rows[1].Total_sales
  /\ \E i \in 1..Len(charts.pivot_revenue.index),
         j \in 1..Len(charts.pivot_revenue.columns) :
        /\ PairRows(filtered_df, <<charts.pivot_revenue.index[i],
                                   charts.pivot_revenue.columns[j]>>) = <<>>
        /\ charts.pivot_revenue.values[i][j] = 0

\* C17: whatever runs came before, what a run presents is what a fresh
\* computation on the current source and criteria gives: the filtered set
\* is the filter of the source under the current criteria, the hero metrics
\* and the insights (which may come from the cache) are those of the
\* current filtered set, never those of an earlier one.
C17_PresentedIsFresh ==
  /\ FilterApplied =>
       filtered_df = ApplyFilters(df, selected_cities, selected_segments, sales_range)
  /\ hero # NoHero => hero = create_hero_metrics(filtered_df).result
  /\ insights # <<>> => insights = create_customer_insights_box(filtered_df).result

====
